---- MODULE Spec2Model ----
(***************************************************************************)
(* A model of mlflow/h2o.py: save_model, _load_model, load_pyfunc,         *)
(* load_model and _H2OModelWrapper.predict, over an explicit filesystem,   *)
(* the manifest objects (mlflow.models.Model) and the state of the H2O     *)
(* runtime.  Paths are sequences of components; an absolute path starts    *)
(* with the component "/".  Every YAML value is a sequence of strings, and *)
(* an optional argument is <<>> (None) or a one-element sequence.          *)
(*                                                                         *)
(* Assumptions on the wrapped library, which the module only calls:        *)
(*   - h2o.save_model(model, path) writes one file path/<model id> and     *)
(*     returns that location; no model id is "h2o.yaml";                   *)
(*   - h2o.load_model(file) returns the model stored in the file;          *)
(*   - model.predict returns one prediction row per input row;             *)
(*   - every library call fails when no runtime is up, and may fail        *)
(*     otherwise.                                                          *)
(***************************************************************************)
EXTENDS Integers, Sequences, FiniteSets, TLC

VARIABLES
    fs,        \* the filesystem
    models,    \* the flavors of each manifest object (mlflow.models.Model)
    saved,     \* per destination created by save_model: the arguments of that call
               \* and the location h2o.save_model returned (<<>> while it has not)
    runtime,   \* the H2O runtime: is it up, does it print progress
    wrapper,   \* the predictor wrapper load_pyfunc returned last (<<>>: none)
    trace,     \* the calls the last operation made to its collaborators, in order
    last       \* the last operation: its arguments and its outcome

vars == <<fs, models, saved, runtime, wrapper, trace, last>>

(***************************************************************************)
(* Bounds and input domains                                                *)
(***************************************************************************)
MaxRows == 2

H2OModels == {"mA", "mB"}
IndexLabels == {0, 3, 7}
CellValues == {1, 2}
RunIds == {"r0", "r1"}
KnownRuns == {"r1"}
ManifestObjects == {"default", "m1"}
CondaEnvs == {<<>>, <<"conda.yaml">>}
H2OVersion == <<"3.22.0.1">>

(***************************************************************************)
(* os.path                                                                 *)
(***************************************************************************)
Cwd == <<"/", "w">>

IsAbs(p) == Len(p) > 0 /\ p[1] = "/"

\* os.path.join(a, b): an absolute second argument discards the first
Join(a, b) == IF IsAbs(b) THEN b ELSE a \o b

RECURSIVE NormAcc(_, _)
NormAcc(acc, rest) ==
    IF rest = <<>> THEN acc
    ELSE LET c == Head(rest) IN
         IF c = "." THEN NormAcc(acc, Tail(rest))
         ELSE IF c = ".."
              THEN NormAcc(IF Len(acc) > 1 THEN SubSeq(acc, 1, Len(acc) - 1) ELSE acc,
                           Tail(rest))
              ELSE NormAcc(Append(acc, c), Tail(rest))

\* os.path.abspath(p) = normpath(join(getcwd(), p))
Abspath(p) == NormAcc(<<"/">>, Tail(Join(Cwd, p)))

\* os.path.basename(p): the last component, as a relative path
Basename(p) == <<p[Len(p)]>>

Prefixes(p) == {SubSeq(p, 1, i) : i \in 1..Len(p)}

(***************************************************************************)
(* Filesystem: a function from the existing absolute paths to nodes        *)
(***************************************************************************)
DirNode == [type |-> "dir"]
OtherFile == [type |-> "other"]
H2OFile(m) == [type |-> "h2o", model |-> m]
YamlFile(d) == [type |-> "yaml", doc |-> d]
ManifestFile(f) == [type |-> "mlmodel", flavors |-> f]

\* the result of yaml.safe_load on a settings file
MapDoc(m) == [k |-> "map", m |-> m]
EmptyDoc == [k |-> "empty", m |-> <<>>]
GarbageDoc == [k |-> "garbage", m |-> <<>>]

PathExists(fsys, p) == p \in DOMAIN fsys

IsDir(fsys, p) == p \in DOMAIN fsys /\ fsys[p].type = "dir"

WriteFile(fsys, p, node) ==
    [q \in (DOMAIN fsys) \cup {p} |-> IF q = p THEN node ELSE fsys[q]]

\* os.makedirs fails when the directory exists, or a component of the path exists
\* and is no directory
MakedirsFails(fsys, dir) ==
    \/ dir \in DOMAIN fsys
    \/ \E q \in Prefixes(dir) : q \in DOMAIN fsys /\ fsys[q].type # "dir"

Makedirs(fsys, dir) ==
    [q \in (DOMAIN fsys) \cup Prefixes(dir) |-> IF q \in DOMAIN fsys THEN fsys[q] ELSE DirNode]

InitFs ==
    LET dirs == {<<"/">>, <<"/", "w">>, <<"/", "runs">>, <<"/", "runs", "r1">>,
                 <<"/", "w", "d">>, <<"/", "w", "e">>}
        files == {<<"/", "w", "f">>, <<"/", "w", "e", "junk">>}
    IN [q \in dirs \cup files |-> IF q \in dirs THEN DirNode ELSE OtherFile]

(***************************************************************************)
(* Calls to collaborators, in the order the module makes them              *)
(***************************************************************************)
Call(name, p, kw) == [call |-> name, path |-> p, kw |-> kw]

Calls(tr, name) == {i \in 1..Len(tr) : tr[i].call = name}

ModelId(m) == IF m = "mA" THEN "GLM_1" ELSE "GBM_2"

\* the location h2o.save_model(model, path=dir, force=True) returns
H2OSaveLocation(m, dir) == Join(dir, <<ModelId(m)>>)

(***************************************************************************)
(* mlflow.models.Model and mlflow.pyfunc (collaborators)                   *)
(***************************************************************************)
\* Model.add_flavor(name, **params): self.flavors[name] = params
AddFlavor(flavors, name, entry) ==
    [k \in (DOMAIN flavors) \cup {name} |-> IF k = name THEN entry ELSE flavors[k]]

\* pyfunc.add_to_model(model, loader_module, data, env)
AddPyfunc(flavors, loader, data, env) ==
    AddFlavor(flavors, "python_function",
              [loader_module |-> loader, data |-> data, env |-> env])

InitModels ==
    [o \in ManifestObjects |->
        IF o = "default" THEN <<>> ELSE [sklearn |-> [pickled_model |-> <<"model.pkl">>]]]

(***************************************************************************)
(* save_model                                                              *)
(***************************************************************************)
SettingsInputs ==
    { <<>>,
      << <<>> >>,
      << [init |-> <<"nthreads=2">>] >>,
      << [full_file |-> <<"x">>, model_file |-> <<"y">>, model_dir |-> <<"z">>,
          extra |-> <<"e">>] >> }

\* /w/a by a name to normalise, a directory, a non-empty directory, a file, a path
\* under a file
SavePathInputs == { <<".", "d", "..", "a">>, <<"d">>, <<"e">>, <<"f">>, <<"f", "x">> }

RunPathInputs == { <<"/", "runs", "r1", "a">> }

SaveFailures == {"none", "h2o", "open", "dump_empty", "dump_garbage", "dump_prefix", "mlmodel"}

\* mutant: only an existing file is a conflict (os.path.isfile)
PathConflict_files_only(fsys, path) == PathExists(fsys, path) /\ fsys[path].type # "dir"

\* lines 41-42: the destination must not exist
PathConflict(fsys, path) == PathExists(fsys, path)

\* lines 40-42
StCheck(st, a) ==
    IF PathConflict(st.fs, Abspath(a.path)) THEN [st EXCEPT !.outcome = "PathExists"] ELSE st

\* lines 43-44
StMakedirs(st, a) ==
    LET path == Abspath(a.path)
        model_dir == Join(path, <<"model.h2o">>)
        tr == Append(st.trace, Call("os.makedirs", model_dir, <<>>))
    IN IF st.outcome # "running" THEN st
       ELSE IF MakedirsFails(st.fs, model_dir)
            THEN [st EXCEPT !.outcome = "NotADirectory", !.trace = tr]
            ELSE [st EXCEPT !.fs = Makedirs(st.fs, model_dir),
                            !.saved = WriteFile(st.saved, path,
                                        [h2o_model |-> a.h2o_model, conda_env |-> a.conda_env,
                                         mm |-> a.mm, settings |-> a.settings, loc |-> <<>>]),
                            !.trace = tr]

\* lines 47-48
StH2OSave(st, a, up) ==
    LET path == Abspath(a.path)
        model_dir == Join(path, <<"model.h2o">>)
        loc == H2OSaveLocation(a.h2o_model, model_dir)
        tr == Append(st.trace, Call("h2o.save_model", model_dir, <<a.h2o_model>>))
    IN IF st.outcome # "running" THEN st
       ELSE IF ~up \/ a.fail = "h2o"
            THEN [st EXCEPT !.outcome = "H2OError", !.trace = tr]
            ELSE [st EXCEPT !.fs = WriteFile(st.fs, loc, H2OFile(a.h2o_model)),
                            !.saved[path].loc = loc,
                            !.loc = loc,
                            !.trace = tr]

\* mutant: a key the caller supplied is kept (settings.setdefault)
DerivedSettings_caller_wins(settings, loc, model_dir) ==
    LET s == IF settings = <<>> THEN <<>> ELSE settings[1]
    IN [k \in (DOMAIN s) \cup {"full_file", "model_file", "model_dir"} |->
           IF k \in DOMAIN s THEN s[k]
           ELSE IF k = "full_file" THEN loc
           ELSE IF k = "model_file" THEN Basename(loc)
           ELSE model_dir]

\* lines 51-55: the caller's mapping with the derived location fields set
DerivedSettings(settings, loc, model_dir) ==
    LET s == IF settings = <<>> THEN <<>> ELSE settings[1]
    IN [k \in (DOMAIN s) \cup {"full_file", "model_file", "model_dir"} |->
           IF k = "full_file" THEN loc
           ELSE IF k = "model_file" THEN Basename(loc)
           ELSE IF k = "model_dir" THEN model_dir
           ELSE s[k]]

\* a dump cut short keeps the keys written before model_dir (keys are sorted)
DumpPrefix(m) == [k \in (DOMAIN m) \ {"model_dir", "model_file"} |-> m[k]]

\* lines 56-57
StSettings(st, a) ==
    LET model_dir == Join(Abspath(a.path), <<"model.h2o">>)
        file == Join(model_dir, <<"h2o.yaml">>)
        m == DerivedSettings(a.settings, st.loc, model_dir)
        tr == Append(st.trace, Call("open", file, <<"w">>))
    IN IF st.outcome # "running" THEN st
       ELSE IF a.fail = "open"
            THEN [st EXCEPT !.outcome = "SettingsError", !.trace = tr]
       ELSE IF a.fail \in {"dump_empty", "dump_garbage", "dump_prefix"}
            THEN [st EXCEPT !.outcome = "SettingsError", !.trace = tr,
                            !.fs = WriteFile(st.fs, file,
                                      YamlFile(IF a.fail = "dump_empty" THEN EmptyDoc
                                               ELSE IF a.fail = "dump_garbage" THEN GarbageDoc
                                               ELSE MapDoc(DumpPrefix(m))))]
       ELSE [st EXCEPT !.fs = WriteFile(st.fs, file, YamlFile(MapDoc(m))), !.trace = tr]

\* mutant: the generic-inference entry is not added
ManifestEntries_flavor_only(flavors, model_file, conda_env) ==
    AddFlavor(flavors, "h2o", [saved_model |-> model_file, h2o_version |-> H2OVersion])

\* lines 59-61
ManifestEntries(flavors, model_file, conda_env) ==
    AddFlavor(AddPyfunc(flavors, <<"mlflow.h2o">>, <<"model.h2o">>, conda_env),
              "h2o", [saved_model |-> model_file, h2o_version |-> H2OVersion])

\* lines 59-62
StManifest(st, a) ==
    LET file == Join(Abspath(a.path), <<"MLmodel">>)
        flavors == ManifestEntries(st.models[a.mm], Basename(st.loc), a.conda_env)
        tr == Append(st.trace, Call("Model.save", file, <<>>))
    IN IF st.outcome # "running" THEN st
       ELSE IF a.fail = "mlmodel"
            THEN [st EXCEPT !.models[a.mm] = flavors, !.outcome = "ManifestError",
                            !.trace = tr]
            ELSE [st EXCEPT !.models[a.mm] = flavors, !.outcome = "ok", !.trace = tr,
                            !.fs = WriteFile(st.fs, file, ManifestFile(flavors))]

\* mutant: the manifest is written before the settings document
SaveSteps_manifest_first(st, a, up) ==
    LET s3 == StH2OSave(StMakedirs(StCheck(st, a), a), a, up)
        s4 == StManifest(s3, a)
        s5 == StSettings([s4 EXCEPT !.outcome = IF @ = "ok" THEN "running" ELSE @], a)
    IN [s5 EXCEPT !.outcome = IF @ = "running" THEN "ok" ELSE @]

\* mutant: the destination is removed again when h2o.save_model raises
SaveSteps_cleanup(st, a, up) ==
    LET r == StManifest(StSettings(StH2OSave(StMakedirs(StCheck(st, a), a), a, up), a), a)
    IN IF r.outcome = "H2OError" THEN [r EXCEPT !.fs = st.fs] ELSE r

\* lines 40-62, in the order of the code; nothing is undone when a step raises
SaveSteps(st, a, up) ==
    StManifest(StSettings(StH2OSave(StMakedirs(StCheck(st, a), a), a, up), a), a)

(***************************************************************************)
(* The record of the last call                                             *)
(***************************************************************************)
EmptyFrame == [index |-> <<>>, rows |-> <<>>]

NoCall ==
    [op |-> "none", path |-> <<>>, run_id |-> <<>>, outcome |-> "", ret |-> <<>>,
     df |-> EmptyFrame, df_after |-> EmptyFrame, out |-> EmptyFrame]

save_model(h2o_model, path, conda_env, mm, settings, fail) ==
    LET a == [h2o_model |-> h2o_model, path |-> path, conda_env |-> conda_env, mm |-> mm,
              settings |-> settings, fail |-> fail]
        st == [fs |-> fs, models |-> models, saved |-> saved, outcome |-> "running",
               trace |-> <<>>, loc |-> <<>>]
        r == SaveSteps(st, a, runtime.up)
    IN /\ fs' = r.fs
       /\ models' = r.models
       /\ saved' = r.saved
       /\ trace' = r.trace
       /\ last' = [NoCall EXCEPT !.op = "save_model", !.path = path, !.outcome = r.outcome]
       /\ UNCHANGED <<runtime, wrapper>>

\* the failures the environment can inject: none before the first write is attempted
FailuresAt(p, Fs) == IF PathExists(fs, Abspath(p)) THEN {"none"} ELSE Fs

SaveModelOver(Ms, Ps, Es, Os, Ss, Fs) ==
    \E m \in Ms, p \in Ps, e \in Es, o \in Os, s \in Ss :
        \E f \in FailuresAt(p, Fs) : save_model(m, p, e, o, s, f)

Init ==
    /\ fs = InitFs
    /\ models = InitModels
    /\ saved = <<>>
    /\ runtime \in [up : BOOLEAN, progress : {TRUE}]
    /\ wrapper = <<>>
    /\ trace = <<>>
    /\ last = NoCall

\* mlflow_model left to its default, the one Model() every such call shares
SaveModel ==
    SaveModelOver(H2OModels, SavePathInputs, CondaEnvs, {"default"}, SettingsInputs,
                  SaveFailures)

\* mlflow_model given: an object that already has a flavor
SaveModelInto ==
    SaveModelOver({"mA"}, SavePathInputs, {<<"conda.yaml">>}, {"m1"}, {<<>>},
                  {"none", "mlmodel"})

\* a second destination, the artifact directory of run r1
SaveModelRun ==
    SaveModelOver({"mB"}, RunPathInputs, {<<>>}, {"default"}, {<<>>}, {"none"})

NextSave == SaveModel \/ SaveModelInto \/ SaveModelRun

SpecSave == Init /\ [][NextSave]_vars

(***************************************************************************)
(* _load_model                                                             *)
(***************************************************************************)
\* line 111: params["init"] if "init" in params else {}
InitKwargs(params) == IF "init" \in DOMAIN params THEN params["init"] ELSE <<>>

\* mutant: the file is looked up beside the inner directory, not in it
ModelLocation_outer(path, params) ==
    Join(SubSeq(path, 1, Len(path) - 1), params["model_file"])

\* line 113: os.path.join(path, params['model_file'])
ModelLocation(path, params) == Join(path, params["model_file"])

\* lines 107-109
LdRead(st, a, fsys) ==
    LET file == Join(Abspath(a.path), <<"h2o.yaml">>)
        tr == Append(st.trace, Call("open", file, <<"r">>))
        doc == IF fsys[file].type = "yaml" THEN fsys[file].doc ELSE GarbageDoc
    IN IF st.outcome # "running" THEN st
       ELSE IF ~PathExists(fsys, file) \/ IsDir(fsys, file)
            THEN [st EXCEPT !.outcome = "IOError", !.trace = tr]
       ELSE IF doc.k = "garbage"
            THEN [st EXCEPT !.outcome = "YAMLError", !.trace = tr]
       ELSE [st EXCEPT !.params = doc, !.trace = tr]

\* lines 110-112
LdInit(st, a) ==
    LET tr == Append(st.trace, Call("h2o.init", <<>>, InitKwargs(st.params.m)))
    IN IF st.outcome # "running" \/ ~a.init THEN st
       ELSE IF st.params.k = "empty"
            THEN [st EXCEPT !.outcome = "TypeError"]
       ELSE IF ~a.initOk
            THEN [st EXCEPT !.outcome = "H2OError", !.trace = tr]
       ELSE [st EXCEPT !.runtime = [up |-> TRUE, progress |-> FALSE],
                       !.trace = Append(tr, Call("h2o.no_progress", <<>>, <<>>))]

\* line 113
LdLoad(st, a, fsys) ==
    LET loc == ModelLocation(Abspath(a.path), st.params.m)
        tr == Append(st.trace, Call("h2o.load_model", loc, <<>>))
    IN IF st.outcome # "running" THEN st
       ELSE IF st.params.k = "empty"
            THEN [st EXCEPT !.outcome = "TypeError"]
       ELSE IF "model_file" \notin DOMAIN st.params.m
            THEN [st EXCEPT !.outcome = "KeyError"]
       ELSE IF st.runtime.up /\ a.loadOk /\ PathExists(fsys, loc) /\ fsys[loc].type = "h2o"
            THEN [st EXCEPT !.outcome = "ok", !.ret = <<fsys[loc].model>>, !.trace = tr]
       ELSE [st EXCEPT !.outcome = "H2OError", !.trace = tr]

\* mutant: the runtime is started before the settings document is read
LoadSteps_init_first(st, a, fsys) == LdLoad(LdRead(LdInit(st, a), a, fsys), a, fsys)

\* lines 105-113, in the order of the code
LoadSteps(st, a, fsys) == LdLoad(LdInit(LdRead(st, a, fsys), a), a, fsys)

\* _load_model(path, init) called with the calls made so far in tr
LoadModelFrom(path, init, initOk, loadOk, tr) ==
    LoadSteps([outcome |-> "running", ret |-> <<>>, trace |-> tr, runtime |-> runtime,
               params |-> MapDoc(<<>>)],
              [path |-> path, init |-> init, initOk |-> initOk, loadOk |-> loadOk], fs)

(***************************************************************************)
(* load_pyfunc and load_model                                              *)
(***************************************************************************)
\* mutant: load_pyfunc leaves the runtime alone
PyfuncInit_off == FALSE

\* line 149: init=True
PyfuncInit == TRUE

\* line 105 (the default init=False), line 172
LoadModelInit == FALSE

load_pyfunc(path, initOk, loadOk) ==
    LET r == LoadModelFrom(path, PyfuncInit, initOk, loadOk, <<>>)
    IN /\ runtime' = r.runtime
       /\ trace' = r.trace
       /\ wrapper' = IF r.outcome = "ok" THEN r.ret ELSE wrapper
       /\ last' = [NoCall EXCEPT !.op = "load_pyfunc", !.path = path,
                                 !.outcome = r.outcome, !.ret = r.ret]
       /\ UNCHANGED <<fs, models, saved>>

\* mlflow.tracking.utils._get_model_log_dir(model_name, run_id)
GetModelLogDir(model_name, run) == Join(<<"/", "runs", run>>, model_name)

\* mutant: the run identifier is ignored
UsesResolver_never(run_id) == FALSE

\* line 170
UsesResolver(run_id) == run_id # <<>>

load_model(path, run_id, loadOk) ==
    LET tr == IF UsesResolver(run_id)
              THEN <<Call("_get_model_log_dir", path, run_id)>> ELSE <<>>
        resolved == IF UsesResolver(run_id) THEN GetModelLogDir(path, run_id[1]) ELSE path
        r == LoadModelFrom(Join(resolved, <<"model.h2o">>), LoadModelInit, TRUE, loadOk, tr)
        failed == UsesResolver(run_id) /\ run_id[1] \notin KnownRuns
    IN /\ runtime' = IF failed THEN runtime ELSE r.runtime
       /\ trace' = IF failed THEN tr ELSE r.trace
       /\ last' = [NoCall EXCEPT !.op = "load_model", !.path = path, !.run_id = run_id,
                                 !.outcome = IF failed THEN "ResolveError" ELSE r.outcome,
                                 !.ret = IF failed THEN <<>> ELSE r.ret]
       /\ UNCHANGED <<fs, models, saved, wrapper>>

PyfuncPathInputs ==
    { <<"a", "model.h2o">>, <<"/", "runs", "r1", "a", "model.h2o">>, <<"a">> }

LoadPathInputs == { <<"a">>, <<".", "a">> }

RunIdInputs == { <<>>, <<"r0">>, <<"r1">> }

LoadPyfunc ==
    \E p \in PyfuncPathInputs, initOk \in BOOLEAN, loadOk \in BOOLEAN :
        load_pyfunc(p, initOk, loadOk)

LoadModel ==
    \E p \in LoadPathInputs, r \in RunIdInputs, loadOk \in BOOLEAN : load_model(p, r, loadOk)

\* the saves the loads are checked against
SaveModelForLoad ==
    SaveModelOver(H2OModels, {<<"a">>}, {<<>>}, {"default"},
                  { <<>>, << [init |-> <<"nthreads=2">>] >> },
                  {"none", "h2o", "dump_empty", "dump_garbage", "dump_prefix"})

NextLoad == SaveModelForLoad \/ SaveModelRun \/ LoadPyfunc \/ LoadModel

SpecLoad == Init /\ [][NextLoad]_vars

(***************************************************************************)
(* _H2OModelWrapper.predict                                                *)
(***************************************************************************)
DataFrames ==
    UNION { { [index |-> i, rows |-> r] : i \in [1..k -> IndexLabels], r \in [1..k -> CellValues] } :
            k \in 0..MaxRows }

\* h2o.H2OFrame(dataframe): the cells, without the row index
H2OFrame(df) == df.rows

\* h2o_model.predict(frame): one prediction per row
NativePredict(m, frame) == [i \in 1..Len(frame) |-> frame[i] * (IF m = "mA" THEN 2 ELSE 3)]

\* H2OFrame.as_data_frame(): a new frame with the default index 0..n-1
AsDataFrame(frame) == [index |-> [i \in 1..Len(frame) |-> i - 1], rows |-> frame]

\* mutant: the output keeps the index as_data_frame gave it
WrapperPredict_native_index(h2o_model, df, ok) ==
    IF ~ok THEN [outcome |-> "H2OError", out |-> EmptyFrame, df_after |-> df]
    ELSE [outcome |-> "ok", out |-> AsDataFrame(NativePredict(h2o_model, H2OFrame(df))),
          df_after |-> df]

\* lines 120-124
WrapperPredict(h2o_model, df, ok) ==
    LET predicted == AsDataFrame(NativePredict(h2o_model, H2OFrame(df)))
    IN IF ~ok THEN [outcome |-> "H2OError", out |-> EmptyFrame, df_after |-> df]
       ELSE IF Len(df.index) # Len(predicted.index)
            THEN [outcome |-> "ValueError", out |-> EmptyFrame, df_after |-> df]
       ELSE [outcome |-> "ok", out |-> [predicted EXCEPT !.index = df.index],
             df_after |-> df]

predict(df, ok) ==
    /\ wrapper # <<>>
    /\ LET r == WrapperPredict(wrapper[1], df, runtime.up /\ ok)
       IN /\ last' = [NoCall EXCEPT !.op = "predict", !.df = df, !.df_after = r.df_after,
                                    !.out = r.out, !.outcome = r.outcome]
          /\ trace' = <<Call("h2o.H2OFrame", <<>>, <<>>), Call("predict", <<>>, <<>>)>>
    /\ UNCHANGED <<fs, models, saved, runtime, wrapper>>

Predict == \E df \in DataFrames, ok \in BOOLEAN : predict(df, ok)

\* a wrapper constructed around any model, as _H2OModelWrapper(h2o_model)
InitPredict ==
    /\ fs = InitFs
    /\ models = InitModels
    /\ saved = <<>>
    /\ runtime \in [up : BOOLEAN, progress : {FALSE}]
    /\ wrapper \in {<<m>> : m \in H2OModels}
    /\ trace = <<>>
    /\ last = NoCall

NextPredict == Predict

SpecPredict == InitPredict /\ [][NextPredict]_vars

(***************************************************************************)
(* Properties                                                              *)
(***************************************************************************)
InnerDir(d) == Join(d, <<"model.h2o">>)
SettingsFile(d) == Join(InnerDir(d), <<"h2o.yaml">>)
ManifestPath(d) == Join(d, <<"MLmodel">>)
Parent(p) == SubSeq(p, 1, Len(p) - 1)
IsUnder(p, dir) == Len(p) > Len(dir) /\ SubSeq(p, 1, Len(dir)) = dir
LocationKeys == {"full_file", "model_file", "model_dir"}

HasFile(p, type) == PathExists(fs, p) /\ fs[p].type = type

\* the destination of the last save_model call
LastDest == Abspath(last.path)

SavedOk == last.op = "save_model" /\ last.outcome = "ok"

\* C1: a save_model call whose destination exists (a file or a directory, empty
\* or not, under any of its names) raises the path-conflict error and changes
\* nothing: the filesystem and every manifest object are as before, and
\* h2o.save_model is not called.
C1_ExistingDestinationRejected ==
    [][(last'.op = "save_model" /\ PathExists(fs, Abspath(last'.path)))
        => /\ last'.outcome = "PathExists"
           /\ fs' = fs
           /\ models' = models
           /\ saved' = saved
           /\ Calls(trace', "h2o.save_model") = {}
           /\ Calls(trace', "os.makedirs") = {}]_vars

C1_Witness ==
    /\ last.op = "save_model"
    /\ last.outcome = "PathExists"
    /\ LastDest = <<"/", "w", "e">>
    /\ HasFile(<<"/", "w", "e", "junk">>, "other")

\* C3: after a successful save_model the settings document holds full_file,
\* model_file and model_dir, with model_file the basename of full_file, full_file
\* the location h2o.save_model returned and under model_dir, and model_dir the
\* inner subdirectory of the destination; these three overwrite what the caller
\* supplied under the same names, and every other key of the caller is kept.
C3_SettingsDocument ==
    SavedOk =>
        /\ HasFile(SettingsFile(LastDest), "yaml")
        /\ LET doc == fs[SettingsFile(LastDest)].doc
               given == saved[LastDest].settings
               s == IF given = <<>> THEN <<>> ELSE given[1]
           IN /\ doc.k = "map"
              /\ DOMAIN doc.m = (DOMAIN s) \cup LocationKeys
              /\ doc.m["model_file"] = Basename(doc.m["full_file"])
              /\ doc.m["full_file"] = saved[LastDest].loc
              /\ IsUnder(doc.m["full_file"], doc.m["model_dir"])
              /\ doc.m["model_dir"] = InnerDir(LastDest)
              /\ \A k \in (DOMAIN s) \ LocationKeys : doc.m[k] = s[k]

C3_Witness ==
    /\ SavedOk
    /\ saved[LastDest].settings # <<>>
    /\ LocationKeys \cup {"extra"} \subseteq DOMAIN saved[LastDest].settings[1]
    /\ fs[SettingsFile(LastDest)].doc.m["extra"] = <<"e">>

\* C4: after a successful save_model the manifest file MLmodel of the destination
\* holds the flavor entry (the file name recorded as model_file in the settings
\* document, and the library version) and the generic-inference entry (this
\* module as loader, the inner subdirectory as data, the caller's environment
\* descriptor), beside the flavors the manifest object already had.
C4_ManifestEntries ==
    SavedOk =>
        /\ HasFile(ManifestPath(LastDest), "mlmodel")
        /\ LET flavors == fs[ManifestPath(LastDest)].flavors
           IN /\ {"h2o", "python_function"} \subseteq DOMAIN flavors
              /\ flavors["h2o"] =
                     [saved_model |-> fs[SettingsFile(LastDest)].doc.m["model_file"],
                      h2o_version |-> H2OVersion]
              /\ flavors["python_function"] =
                     [loader_module |-> <<"mlflow.h2o">>, data |-> <<"model.h2o">>,
                      env |-> saved[LastDest].conda_env]
              /\ InnerDir(LastDest) = Join(LastDest, flavors["python_function"].data)
              /\ \A k \in DOMAIN InitModels[saved[LastDest].mm] :
                     k \in DOMAIN flavors /\ flavors[k] = InitModels[saved[LastDest].mm][k]

\* the second save through the shared default manifest object
C4_Witness ==
    /\ SavedOk
    /\ LastDest = <<"/", "runs", "r1", "a">>
    /\ HasFile(ManifestPath(<<"/", "w", "a">>), "mlmodel")
    /\ saved[<<"/", "w", "a">>].mm = "default"
    /\ saved[<<"/", "w", "a">>].h2o_model = "mA"

\* C9: whatever saves were attempted and however they ended, a manifest file
\* exists only where the inner subdirectory holds the settings document and the
\* native model file.
C9_ManifestWrittenLast ==
    \A p \in DOMAIN fs :
        (p[Len(p)] = "MLmodel" /\ fs[p].type = "mlmodel") =>
            LET d == Parent(p)
            IN /\ d \in DOMAIN saved
               /\ HasFile(SettingsFile(d), "yaml")
               /\ fs[SettingsFile(d)].doc.k = "map"
               /\ LocationKeys \subseteq DOMAIN fs[SettingsFile(d)].doc.m
               /\ saved[d].loc # <<>>
               /\ HasFile(saved[d].loc, "h2o")
               /\ IsUnder(saved[d].loc, InnerDir(d))

\* one save failed in the settings write, another wrote its manifest
C9_Witness ==
    /\ HasFile(ManifestPath(<<"/", "runs", "r1", "a">>), "mlmodel")
    /\ HasFile(SettingsFile(<<"/", "w", "a">>), "yaml")
    /\ fs[SettingsFile(<<"/", "w", "a">>)].doc.k # "map"
    /\ ~PathExists(fs, ManifestPath(<<"/", "w", "a">>))

\* a destination whose h2o.save_model call raised
LeftHalfSaved(d) == d \in DOMAIN saved /\ saved[d].loc = <<>>

\* C10: when h2o.save_model raises, save_model ends with that error and the
\* destination and its inner subdirectory stay, with no settings document and no
\* manifest; every later save_model to that destination raises the path-conflict
\* error and changes nothing.
C10_NoRollback ==
    /\ [](/\ (last.op = "save_model" /\ last.outcome = "H2OError") => LeftHalfSaved(LastDest)
          /\ \A d \in DOMAIN saved :
                 LeftHalfSaved(d) =>
                     /\ IsDir(fs, d)
                     /\ IsDir(fs, InnerDir(d))
                     /\ ~PathExists(fs, SettingsFile(d))
                     /\ ~PathExists(fs, ManifestPath(d)))
    /\ [][(last'.op = "save_model" /\ LeftHalfSaved(Abspath(last'.path)))
           => (last'.outcome = "PathExists" /\ fs' = fs /\ saved' = saved)]_vars

C10_Witness ==
    /\ last.op = "save_model"
    /\ last.outcome = "PathExists"
    /\ LeftHalfSaved(LastDest)
    /\ runtime.up

\* the directory the last load read: the argument of load_pyfunc, the inner
\* subdirectory of the (resolved) path of load_model
LoadedDir ==
    Abspath(IF last.op = "load_pyfunc" THEN last.path
            ELSE Join(IF last.run_id # <<>> THEN GetModelLogDir(last.path, last.run_id[1])
                      ELSE last.path,
                      <<"model.h2o">>))

CallAt(i, name) == i \in 1..Len(trace) /\ trace[i].call = name

SaveCompleted(d) == d \in DOMAIN saved /\ HasFile(ManifestPath(d), "mlmodel")

\* C2: after a successful save_model(model, P), load_pyfunc on P's inner
\* subdirectory and load_model(P) without a run identifier can fail only inside
\* the library; the file they hand to h2o.load_model is the location
\* h2o.save_model returned, the model they return is the one saved, and the
\* wrapper's predictions on any input are those of the saved model.
C2_RoundTrip ==
    ((last.op = "load_pyfunc" \/ (last.op = "load_model" /\ last.run_id = <<>>))
      /\ SaveCompleted(Parent(LoadedDir)) /\ LoadedDir = InnerDir(Parent(LoadedDir)))
    => LET sv == saved[Parent(LoadedDir)]
       IN /\ last.outcome \in {"ok", "H2OError"}
          /\ \A i \in Calls(trace, "h2o.load_model") : trace[i].path = sv.loc
          /\ last.outcome = "ok" =>
                /\ Calls(trace, "h2o.load_model") # {}
                /\ last.ret = <<sv.h2o_model>>
                /\ \A df \in DataFrames :
                       WrapperPredict(last.ret[1], df, TRUE).out.rows
                           = NativePredict(sv.h2o_model, df.rows)

C2_Witness ==
    /\ last.op = "load_pyfunc"
    /\ last.outcome = "ok"
    /\ last.path = <<"a", "model.h2o">>
    /\ SaveCompleted(<<"/", "w", "a">>)
    /\ last.ret = <<"mB">>

\* C6: load_model with a run identifier calls the resolver first, with the path
\* as model name and the run identifier, and reads only under the inner
\* subdirectory of the resolved location; without a run identifier it never calls
\* the resolver and reads under the inner subdirectory of the given path.
C6_ResolverFirst ==
    last.op = "load_model" =>
        /\ trace # <<>>
        /\ IF last.run_id # <<>>
           THEN /\ trace[1] = Call("_get_model_log_dir", last.path, last.run_id)
                /\ Calls(trace, "_get_model_log_dir") = {1}
                /\ last.outcome # "ResolveError" => CallAt(2, "open")
           ELSE /\ Calls(trace, "_get_model_log_dir") = {}
                /\ CallAt(1, "open")
        /\ \A i \in Calls(trace, "open") : trace[i].path = Join(LoadedDir, <<"h2o.yaml">>)
        /\ \A i \in Calls(trace, "h2o.load_model") : Parent(trace[i].path) = LoadedDir

C6_Witness ==
    /\ last.op = "load_model"
    /\ last.run_id = <<"r1">>
    /\ last.outcome = "ok"
    /\ LoadedDir = <<"/", "runs", "r1", "a", "model.h2o">>
    /\ PathExists(fs, <<"/", "w", "a", "model.h2o">>)

\* C7: a successful load_pyfunc has called h2o.init exactly once, before
\* h2o.load_model, and returns a wrapper holding the loaded model; load_model, with
\* or without a run identifier and whatever the settings document holds, calls
\* neither h2o.init nor h2o.no_progress.
C7_InitOnlyThroughPyfunc ==
    /\ (last.op = "load_pyfunc" /\ last.outcome = "ok") =>
           /\ Cardinality(Calls(trace, "h2o.init")) = 1
           /\ Cardinality(Calls(trace, "h2o.load_model")) = 1
           /\ \A i \in Calls(trace, "h2o.init"), j \in Calls(trace, "h2o.load_model") : i < j
           /\ runtime.up
           /\ wrapper = last.ret
           /\ \E j \in Calls(trace, "h2o.load_model") :
                  HasFile(trace[j].path, "h2o") /\ wrapper = <<fs[trace[j].path].model>>
    /\ last.op = "load_model" =>
           /\ Calls(trace, "h2o.init") = {}
           /\ Calls(trace, "h2o.no_progress") = {}

\* load_model succeeds on a settings document that holds init parameters
C7_Witness ==
    /\ last.op = "load_model"
    /\ last.outcome = "ok"
    /\ "init" \in DOMAIN fs[Join(LoadedDir, <<"h2o.yaml">>)].doc.m
    /\ wrapper # <<>>

\* the settings document of the directory the last load read: absent, or what
\* yaml.safe_load makes of it
SettingsRead ==
    IF HasFile(Join(LoadedDir, <<"h2o.yaml">>), "yaml")
    THEN fs[Join(LoadedDir, <<"h2o.yaml">>)].doc
    ELSE [k |-> "absent", m |-> <<>>]

C5_IndexPreserved ==
    (last.op = "predict" /\ last.outcome = "ok") =>
        /\ last.out.index = last.df.index
        /\ Len(last.out.rows) = Len(last.df.rows)
        /\ last.out.rows = NativePredict(wrapper[1], last.df.rows)
        /\ last.df_after = last.df

C5_Witness ==
    /\ last.op = "predict"
    /\ last.outcome = "ok"
    /\ last.df.index = <<7, 0>>
    /\ last.df.rows = <<1, 2>>

====
